---- MODULE Spec2Model ----
(***************************************************************************)
(* A model of the MariaDB / MySQL MCP server: the SQL statement policy     *)
(* (validators), and the query executor with its connection handling, in   *)
(* the variants the repository holds.                                      *)
(*                                                                         *)
(* SQL text is a sequence of characters (one-character strings), so that   *)
(* the normalisation of the validators (comment removal, white-space       *)
(* collapse, trim, upper-casing) and their prefix / word tests are         *)
(* computed character by character, as the JavaScript does.                *)
(***************************************************************************)
EXTENDS Integers, Sequences, FiniteSets, TLC

(***************************************************************************)
(* Characters and JavaScript string primitives                             *)
(***************************************************************************)

\* U+212A KELVIN SIGN, as one character.  String.prototype.toLowerCase maps it
\* to "k"; toUpperCase leaves it unchanged (it is already an upper-case letter).
KELVIN == "U+212A"

\* String.prototype.toUpperCase, per character (ASCII letters; other
\* characters of the model's alphabet have no upper-case mapping).
UpperOf ==
    "a" :> "A" @@ "b" :> "B" @@ "c" :> "C" @@ "d" :> "D" @@ "e" :> "E" @@ "f" :> "F" @@ "g"
    :> "G" @@ "h" :> "H" @@ "i" :> "I" @@ "j" :> "J" @@ "k" :> "K" @@ "l" :> "L" @@ "m" :>
    "M" @@ "n" :> "N" @@ "o" :> "O" @@ "p" :> "P" @@ "q" :> "Q" @@ "r" :> "R" @@ "s" :> "S"
    @@ "t" :> "T" @@ "u" :> "U" @@ "v" :> "V" @@ "w" :> "W" @@ "x" :> "X" @@ "y" :> "Y" @@
    "z" :> "Z"

\* String.prototype.toLowerCase, per character.
LowerOf ==
    "A" :> "a" @@ "B" :> "b" @@ "C" :> "c" @@ "D" :> "d" @@ "E" :> "e" @@ "F" :> "f" @@ "G"
    :> "g" @@ "H" :> "h" @@ "I" :> "i" @@ "J" :> "j" @@ "K" :> "k" @@ "L" :> "l" @@ "M" :>
    "m" @@ "N" :> "n" @@ "O" :> "o" @@ "P" :> "p" @@ "Q" :> "q" @@ "R" :> "r" @@ "S" :> "s"
    @@ "T" :> "t" @@ "U" :> "u" @@ "V" :> "v" @@ "W" :> "w" @@ "X" :> "x" @@ "Y" :> "y" @@
    "Z" :> "z"
    @@ KELVIN :> "k"

toUpperCaseChar(c) == IF c \in DOMAIN UpperOf THEN UpperOf[c] ELSE c

toLowerCaseChar(c) == IF c \in DOMAIN LowerOf THEN LowerOf[c] ELSE c

toUpperCase(s) == [i \in 1..Len(s) |-> toUpperCaseChar(s[i])]

toLowerCase(s) == [i \in 1..Len(s) |-> toLowerCaseChar(s[i])]

\* The regular-expression class \s, on the model's alphabet.
IsWhiteSpace(c) == c \in {" ", "\n", "\t"}

\* A line terminator: "." does not match it and, with the m flag, "$" matches
\* right before it.
IsLineTerminator(c) == c \in {"\n"}

startsWith(s, p) == Len(p) <= Len(s) /\ SubSeq(s, 1, Len(p)) = p

endsWith(s, p) == Len(p) <= Len(s) /\ SubSeq(s, Len(s) - Len(p) + 1, Len(s)) = p

includes(s, c) == \E i \in 1..Len(s) : s[i] = c

\* s has p at index i (1-based)
HasAt(s, p, i) ==
    /\ i + Len(p) - 1 <= Len(s)
    /\ \A k \in 1..Len(p) : s[i + k - 1] = p[k]

\* The index of the first line terminator at or after i, or Len(s) + 1.
RECURSIVE LineEnd(_, _)
LineEnd(s, i) ==
    IF i > Len(s) \/ IsLineTerminator(s[i]) THEN i ELSE LineEnd(s, i + 1)

\* .replace(/--.*$/gm, ""): every "--" and the rest of its line are removed;
\* the line terminator stays.
RECURSIVE removeLineComments(_, _)
removeLineComments(s, i) ==
    IF i > Len(s) THEN << >>
    ELSE IF HasAt(s, <<"-", "-">>, i) THEN removeLineComments(s, LineEnd(s, i))
    ELSE <<s[i]>> \o removeLineComments(s, i + 1)

\* The index of the first "*/" at or after i, or 0.
RECURSIVE CommentClose(_, _)
CommentClose(s, i) ==
    IF i + 1 > Len(s) THEN 0
    ELSE IF HasAt(s, <<"*", "/">>, i) THEN i ELSE CommentClose(s, i + 1)

\* .replace(/\/\*[\s\S]*?\*\//g, ""): left to right, every "/*" that has a
\* later "*/" is removed up to the first such "*/" (lazy match).
RECURSIVE removeBlockComments(_, _)
removeBlockComments(s, i) ==
    IF i > Len(s) THEN << >>
    ELSE IF HasAt(s, <<"/", "*">>, i) /\ CommentClose(s, i + 2) # 0
         THEN removeBlockComments(s, CommentClose(s, i + 2) + 2)
    ELSE <<s[i]>> \o removeBlockComments(s, i + 1)

RECURSIVE SkipWhiteSpace(_, _)
SkipWhiteSpace(s, i) ==
    IF i > Len(s) \/ ~IsWhiteSpace(s[i]) THEN i ELSE SkipWhiteSpace(s, i + 1)

\* .replace(/\s+/g, " ")
RECURSIVE collapseWhiteSpace(_, _)
collapseWhiteSpace(s, i) ==
    IF i > Len(s) THEN << >>
    ELSE IF IsWhiteSpace(s[i])
         THEN <<" ">> \o collapseWhiteSpace(s, SkipWhiteSpace(s, i))
    ELSE <<s[i]>> \o collapseWhiteSpace(s, i + 1)

RECURSIVE trimEnd(_)
trimEnd(s) ==
    IF s # << >> /\ IsWhiteSpace(s[Len(s)]) THEN trimEnd(SubSeq(s, 1, Len(s) - 1))
    ELSE s

\* String.prototype.trim
trim(s) == trimEnd(SubSeq(s, SkipWhiteSpace(s, 1), Len(s)))

\* A normalisation that leaves the letter case as it is.
normalize_keepCase(query) ==
    trim(collapseWhiteSpace(
        removeBlockComments(removeLineComments(query, 1), 1), 1))

\* The normalisation every validator starts with.
normalize(query) ==
    toUpperCase(trim(collapseWhiteSpace(
        removeBlockComments(removeLineComments(query, 1), 1), 1)))

\* The white-space-delimited words of a text.
RECURSIVE WordEnd(_, _)
WordEnd(s, i) ==
    IF i > Len(s) \/ IsWhiteSpace(s[i]) THEN i ELSE WordEnd(s, i + 1)

RECURSIVE Words(_, _)
Words(s, i) ==
    IF i > Len(s) THEN {}
    ELSE IF IsWhiteSpace(s[i]) THEN Words(s, i + 1)
    ELSE {SubSeq(s, i, WordEnd(s, i) - 1)} \cup Words(s, WordEnd(s, i))

\* new RegExp(`(^|\\s)${cmd}(\\s|$)`).test(normalizedQuery), given the words of
\* normalizedQuery: cmd holds no white space, so the expression matches exactly
\* when cmd, with white space or an end of the text on either side, is one of
\* the words.
regexTest(cmd, words) == cmd \in words

\* A prefix test that misses the text that is the command alone.
startsWithCommand_prefixOnly(cmd, normalizedQuery) ==
    startsWith(normalizedQuery, cmd \o <<" ">>)

\* cmd + " " is a prefix of the text, or the text is cmd
startsWithCommand(cmd, normalizedQuery) ==
    startsWith(normalizedQuery, cmd \o <<" ">>) \/ normalizedQuery = cmd

\* A test that takes every semicolon for a second statement.
hasMultipleStatements_anySemicolon(normalizedQuery) ==
    includes(normalizedQuery, ";")

\* normalizedQuery.includes(";") && !normalizedQuery.endsWith(";")
hasMultipleStatements(normalizedQuery) ==
    includes(normalizedQuery, ";") /\ ~endsWith(normalizedQuery, <<";">>)

(***************************************************************************)
(* The command lists                                                       *)
(***************************************************************************)
\* ALLOWED_COMMANDS of the MySQL validators (read-only operations)
ALLOWED_COMMANDS_mysql ==
    << <<"S","E","L","E","C","T">>,
       <<"S","H","O","W">>,
       <<"D","E","S","C","R","I","B","E">>,
       <<"D","E","S","C">>,
       <<"E","X","P","L","A","I","N">> >>

\* DISALLOWED_COMMANDS of the MySQL validators; server-mcp.cjs,
\* server-mcp-v2.cjs and v1/test-server.mjs hold the same list.
DISALLOWED_COMMANDS_mysql ==
    << <<"I","N","S","E","R","T">>,
       <<"U","P","D","A","T","E">>,
       <<"D","E","L","E","T","E">>,
       <<"D","R","O","P">>,
       <<"C","R","E","A","T","E">>,
       <<"A","L","T","E","R">>,
       <<"T","R","U","N","C","A","T","E">>,
       <<"R","E","N","A","M","E">>,
       <<"R","E","P","L","A","C","E">>,
       <<"G","R","A","N","T">>,
       <<"R","E","V","O","K","E">>,
       <<"L","O","C","K">>,
       <<"U","N","L","O","C","K">>,
       <<"C","A","L","L">>,
       <<"E","X","E","C">>,
       <<"E","X","E","C","U","T","E">>,
       <<"S","E","T">>,
       <<"S","T","A","R","T">>,
       <<"B","E","G","I","N">>,
       <<"C","O","M","M","I","T">>,
       <<"R","O","L","L","B","A","C","K">> >>

\* ALLOWED_COMMANDS of the MariaDB validators; server-mcp.cjs,
\* server-mcp-v2.cjs and v1/test-server.mjs hold the same list.
ALLOWED_COMMANDS ==
    << <<"S","E","L","E","C","T">>,
       <<"S","H","O","W">>,
       <<"D","E","S","C","R","I","B","E">>,
       <<"D","E","S","C">>,
       <<"E","X","P","L","A","I","N">>,
       <<"I","N","S","E","R","T">>,
       <<"U","P","D","A","T","E">>,
       <<"D","E","L","E","T","E">> >>

\* DISALLOWED_COMMANDS of the MariaDB validators
\* A deny list that also names the three write verbs, the shape of the
\* mysql-named variant: with it the flag read at each call decides.
DISALLOWED_COMMANDS_withWrites ==
    << <<"I","N","S","E","R","T">>,
       <<"U","P","D","A","T","E">>,
       <<"D","E","L","E","T","E">>,
       <<"D","R","O","P">> >>

DISALLOWED_COMMANDS ==
    << <<"D","R","O","P">>,
       <<"C","R","E","A","T","E">>,
       <<"A","L","T","E","R">>,
       <<"T","R","U","N","C","A","T","E">>,
       <<"R","E","N","A","M","E">>,
       <<"R","E","P","L","A","C","E">>,
       <<"G","R","A","N","T">>,
       <<"R","E","V","O","K","E">>,
       <<"L","O","C","K">>,
       <<"U","N","L","O","C","K">>,
       <<"C","A","L","L">>,
       <<"E","X","E","C">>,
       <<"E","X","E","C","U","T","E">>,
       <<"S","E","T">>,
       <<"S","T","A","R","T">>,
       <<"B","E","G","I","N">>,
       <<"C","O","M","M","I","T">>,
       <<"R","O","L","L","B","A","C","K">> >>

INSERT == <<"I","N","S","E","R","T">>
UPDATE == <<"U","P","D","A","T","E">>
DELETE == <<"D","E","L","E","T","E">>

(***************************************************************************)
(* The validators                                                          *)
(*                                                                         *)
(* A JavaScript value handed to a validator is a record: kind is the       *)
(* typeof the value, text its characters when it is a string.  A const of  *)
(* the JavaScript is bound once, as the one element of a set.  env is      *)
(* process.env and config the configuration loaded from it at startup;     *)
(* both hold the three permissions allow_insert, allow_update and          *)
(* allow_delete (for env: whether MARIADB_ALLOW_... is the string "true")  *)
(* and database, the default database ("" when not set).                   *)
(***************************************************************************)

\* !value
IsFalsy(value) ==
    value.kind = "undefined" \/ (value.kind = "string" /\ value.text = << >>)

\* !sql || typeof sql !== "string"
NotNonEmptyString(value) == IsFalsy(value) \/ value.kind # "string"

\* MySQL variant: read-only statements
isReadOnlyQuery(query) ==
    \E normalizedQuery \in {normalize(query)} :
    LET startsWithAllowed ==
            \E k \in DOMAIN ALLOWED_COMMANDS_mysql :
                startsWithCommand(ALLOWED_COMMANDS_mysql[k], normalizedQuery)
        containsDisallowed ==
            \E words \in {Words(normalizedQuery, 1)} :
            \E k \in DOMAIN DISALLOWED_COMMANDS_mysql :
                regexTest(DISALLOWED_COMMANDS_mysql[k], words)
    IN  startsWithAllowed /\ ~containsDisallowed
            /\ ~hasMultipleStatements(normalizedQuery)

\* MariaDB variant (validators.ts that exports isAlloowedQuery): the flags are
\* read from process.env at each call.
isAlloowedQuery(query, env) ==
    \E normalizedQuery \in {normalize(query)} :
    LET ALLOW_INSERT == env.allow_insert
        ALLOW_UPDATE == env.allow_update
        ALLOW_DELETE == env.allow_delete
        startsWithAllowed ==
            \E k \in DOMAIN ALLOWED_COMMANDS :
                startsWithCommand(ALLOWED_COMMANDS[k], normalizedQuery)
        containsDisallowed ==
            \E words \in {Words(normalizedQuery, 1)} :
            \E k \in DOMAIN DISALLOWED_COMMANDS :
                LET cmd == DISALLOWED_COMMANDS[k]
                IN  IF cmd = INSERT /\ ~ALLOW_INSERT THEN FALSE
                    ELSE IF cmd = UPDATE /\ ~ALLOW_UPDATE THEN FALSE
                    ELSE IF cmd = DELETE /\ ~ALLOW_DELETE THEN FALSE
                    ELSE regexTest(cmd, words)
    IN  startsWithAllowed /\ ~containsDisallowed
            /\ ~hasMultipleStatements(normalizedQuery)

\* MariaDB variant (validators.ts that exports isAllowedQuery): the text is
\* normalised, the flags are read, and the function returns true.
isAllowedQuery_ts(query) == TRUE

\* server-mcp.cjs: config.allow_insert is a boolean, and ALLOW_INSERT is
\* config.allow_insert === "true": a boolean is never strictly equal to a
\* string, so the three ALLOW_ values are false.
isAlloowedQuery_mcp(sql, config) ==
    IF NotNonEmptyString(sql) THEN FALSE
    ELSE
    \E normalizedQuery \in {normalize(sql.text)} :
    LET ALLOW_INSERT == FALSE
        ALLOW_UPDATE == FALSE
        ALLOW_DELETE == FALSE
        startsWithAllowed ==
            \E k \in DOMAIN ALLOWED_COMMANDS :
                startsWithCommand(ALLOWED_COMMANDS[k], normalizedQuery)
        containsDisallowed ==
            \E words \in {Words(normalizedQuery, 1)} :
            \E k \in DOMAIN DISALLOWED_COMMANDS_mysql :
                LET cmd == DISALLOWED_COMMANDS_mysql[k]
                IN  IF cmd = INSERT /\ ~ALLOW_INSERT THEN FALSE
                    ELSE IF cmd = UPDATE /\ ~ALLOW_UPDATE THEN FALSE
                    ELSE IF cmd = DELETE /\ ~ALLOW_DELETE THEN FALSE
                    ELSE regexTest(cmd, words)
    IN  startsWithAllowed /\ ~containsDisallowed
            /\ ~hasMultipleStatements(normalizedQuery)

\* server-mcp-v2.cjs
isAlloowedQuery_mcpv2(sql, config) ==
    IF NotNonEmptyString(sql) THEN FALSE
    ELSE
    \E normalizedQuery \in {normalize(sql.text)} :
    LET startsWithAllowed ==
            \E k \in DOMAIN ALLOWED_COMMANDS :
                startsWithCommand(ALLOWED_COMMANDS[k], normalizedQuery)
        containsDisallowed ==
            \E words \in {Words(normalizedQuery, 1)} :
            \E k \in DOMAIN DISALLOWED_COMMANDS_mysql :
                LET cmd == DISALLOWED_COMMANDS_mysql[k]
                IN  IF cmd = INSERT /\ ~config.allow_insert THEN FALSE
                    ELSE IF cmd = UPDATE /\ ~config.allow_update THEN FALSE
                    ELSE IF cmd = DELETE /\ ~config.allow_delete THEN FALSE
                    ELSE regexTest(cmd, words)
    IN  startsWithAllowed /\ ~containsDisallowed
            /\ ~hasMultipleStatements(normalizedQuery)

\* v1/test-server.mjs
isAllowedQuery_v1(sql, config) ==
    IF NotNonEmptyString(sql) THEN FALSE
    ELSE
    \E normalizedQuery \in {normalize(sql.text)} :
    LET startsWithAllowed ==
            \E k \in DOMAIN ALLOWED_COMMANDS :
                startsWithCommand(ALLOWED_COMMANDS[k], normalizedQuery)
        containsDisallowed ==
            \E words \in {Words(normalizedQuery, 1)} :
            \E k \in DOMAIN DISALLOWED_COMMANDS_mysql :
                LET cmd == DISALLOWED_COMMANDS_mysql[k]
                IN  IF cmd = INSERT /\ config.allow_insert THEN FALSE
                    ELSE IF cmd = UPDATE /\ config.allow_update THEN FALSE
                    ELSE IF cmd = DELETE /\ config.allow_delete THEN FALSE
                    ELSE regexTest(cmd, words)
    IN  startsWithAllowed /\ ~containsDisallowed
            /\ ~hasMultipleStatements(normalizedQuery)

\* validateQuery of the three validators.ts: TRUE when it returns, FALSE when
\* it throws.
validateQuery_mysql(query) ==
    IF NotNonEmptyString(query) THEN FALSE ELSE isReadOnlyQuery(query.text)

validateQuery(query, env) ==
    IF NotNonEmptyString(query) THEN FALSE ELSE isAlloowedQuery(query.text, env)

validateQuery_ts(query) ==
    IF NotNonEmptyString(query) THEN FALSE ELSE isAllowedQuery_ts(query.text)

\* The validators, by the file that holds them.
Validators == {"mysql", "ts", "v2ts", "mcp", "mcpv2", "v1"}

\* The decision of validator v on a value: TRUE is allow.
evaluate(v, value, env, config) ==
    CASE v = "mysql" -> validateQuery_mysql(value)
      [] v = "ts"    -> validateQuery_ts(value)
      [] v = "v2ts"  -> validateQuery(value, env)
      [] v = "mcp"   -> isAlloowedQuery_mcp(value, config)
      [] v = "mcpv2" -> isAlloowedQuery_mcpv2(value, config)
      [] v = "v1"    -> isAllowedQuery_v1(value, config)

(***************************************************************************)
(* Configuration                                                           *)
(***************************************************************************)
NoDatabase == << >>

db0 == <<"d","b","0">>

NoHost == << >>

Hosts == { NoHost, <<"h", ".", "x">> }

EnvValues ==
    [host : Hosts, user : {<< >>, <<"u">>}, password : {"", "p"},
     allow_insert : BOOLEAN, allow_update : BOOLEAN, allow_delete : BOOLEAN,
     database : {NoDatabase, db0}]

\* The configuration read from the environment at startup.
getConfigFromEnv(e) ==
    [host |-> e.host,
     user |-> e.user,
     password |-> e.password,
     database |-> e.database,
     allow_insert |-> e.allow_insert,
     allow_update |-> e.allow_update,
     allow_delete |-> e.allow_delete]

\* if (!host) throw ...; if (!user) throw ...; if (!password) throw ...
getConfigFromEnvThrows(e) == e.host = NoHost \/ e.user = << >> \/ e.password = ""

\* The environments with host, user and password.
ValidEnvValues == { e \in EnvValues : ~getConfigFromEnvThrows(e) }

(***************************************************************************)
(* Inputs of the validators: a statement is an optional leading clause     *)
(* followed by at most MaxFragments fragments, all of one family.          *)
(***************************************************************************)
MaxFragments == 3

PlainFragments ==
    { <<"S","E","L","E","C","T">>, <<"I","N","S","E","R","T">>,
      <<"U","P","D","A","T","E">>, <<"D","E","L","E","T","E">>,
      <<"D","R","O","P">>, <<" ">>, <<";">>, <<"x">> }

CommentFragments ==
    { <<"-","-">>, <<"\n">>, <<"/","*">>, <<"*","/">>, <<";">>,
      <<"D","R","O","P">> }

Leads == { << >>, <<"S","E","L","E","C","T"," ","x",";">> }

RECURSIVE TextsOver(_, _)
TextsOver(F, n) ==
    IF n = 0 THEN { << >> }
    ELSE LET T == TextsOver(F, n - 1) IN T \cup { t \o f : t \in T, f \in F }

\* Statements of the documentation and of the test scripts, and some like them.
Examples ==
    { <<"S","E","L","E","C","T"," ","1",";"," ","D","R","O","P"," ","T","A","B","L","E"," ","x">>,
      <<"S","E","L","E","C","T"," ","1",";">>,
      <<"s","e","l","e","c","t"," ","*"," ","F","R","O","M"," ","t">>,
      <<"S","H","O","W"," ","T","A","B","L","E","S",";"," ","S","E","T"," ","a","u","t","o","c","o","m","m","i","t","=","0">>,
      <<"S","H","O","W">>,
      <<"S","E","L","E","C","T"," ","1",";"," ","S","E","L","E","C","T"," ","2",";">>,
      <<"E","X","P","L","A","I","N"," ","D","E","L","E","T","E"," ","F","R","O","M"," ","t">>,
      <<"S","E","L","E","C","T"," ","x"," ","L","O","C",KELVIN>>,
      <<"S","E","L","E","C","T"," ","x",",","D","R","O","P">>,
      <<"S","E","L","E","C","T"," ","1"," ","/","*"," ","-","-"," ","*","/"," ",";"," ","D","R","O","P"," ","T","A","B","L","E"," ","t">> }

Texts ==
    { l \o t : l \in Leads,
               t \in TextsOver(PlainFragments, MaxFragments)
                       \cup TextsOver(CommentFragments, MaxFragments) }
        \cup Examples

StringValue(t) == [kind |-> "string", text |-> t]

Undefined == [kind |-> "undefined", text |-> << >>]

Values ==
    { StringValue(t) : t \in Texts } \cup { Undefined, [kind |-> "number", text |-> << >>] }

\* The statement with the letter case of some of its characters changed.
asciiToLowerCase(s) ==
    [i \in 1..Len(s) |-> IF s[i] = KELVIN THEN s[i] ELSE toLowerCaseChar(s[i])]

\* Every second character in lower case.
alternateCase(s) ==
    [i \in 1..Len(s) |-> IF i % 2 = 1 THEN toLowerCaseChar(s[i]) ELSE toUpperCaseChar(s[i])]

CaseChanges(s) ==
    { toLowerCase(s), toUpperCase(s), asciiToLowerCase(s), alternateCase(s) } \ { s }


(***************************************************************************)
(* Loading the configuration: port and permission flags                    *)
(***************************************************************************)
DigitValue ==
    "0" :> 0 @@ "1" :> 1 @@ "2" :> 2 @@ "3" :> 3 @@ "4" :> 4 @@
    "5" :> 5 @@ "6" :> 6 @@ "7" :> 7 @@ "8" :> 8 @@ "9" :> 9

\* A JavaScript number: an integer or NaN.
Num(n) == [nan |-> FALSE, n |-> n]

NaN == [nan |-> TRUE, n |-> 0]

RECURSIVE parseDigits(_, _)
parseDigits(s, acc) ==
    IF s = << >> \/ Head(s) \notin DOMAIN DigitValue THEN acc
    ELSE parseDigits(Tail(s), acc * 10 + DigitValue[Head(s)])

\* parseInt(value, 10): the number of the leading digits, NaN when there are
\* none or when the value is undefined.
parseInt(value) ==
    IF value.kind # "string" \/ value.text = << >> THEN NaN
    ELSE IF Head(value.text) \notin DOMAIN DigitValue THEN NaN
    ELSE Num(parseDigits(value.text, 0))

DEFAULT_PORT == 3306

TRUE_TEXT == <<"t","r","u","e">>

\* process.env.MARIADB_ALLOW_INSERT === "true"
isTrueText(value) == value = StringValue(TRUE_TEXT)

PortTexts ==
    { <<"3","3","0","6">>, <<"3","3","0","7">>, <<"8","0">>, << >>, <<"x">> }

PortValues == { StringValue(t) : t \in PortTexts } \cup { Undefined }

FlagValues ==
    { Undefined, StringValue(TRUE_TEXT), StringValue(<<"f","a","l","s","e">>) }

ProcessEnvValues ==
    [MARIADB_PORT : PortValues,
     MARIADB_PORTr : { Undefined, StringValue(<<"1">>) },
     MARIADB_ALLOW_INSERT : FlagValues,
     MARIADB_ALLOW_UPDATE : FlagValues,
     MARIADB_ALLOW_DELETE : FlagValues]

NoProcessEnv ==
    [MARIADB_PORT |-> Undefined, MARIADB_PORTr |-> Undefined,
     MARIADB_ALLOW_INSERT |-> Undefined, MARIADB_ALLOW_UPDATE |-> Undefined,
     MARIADB_ALLOW_DELETE |-> Undefined]

\* The command lines: no argument, or port=3308.
ArgvValues == { << >>, << <<"p","o","r","t","=","3","3","0","8">> >> }

NotLoaded == [by |-> "none"]

Threw(by) == [by |-> by, threw |-> TRUE]

\* z.number().parse(port) throws on NaN
Configured(by, port, pe, checked) ==
    IF checked /\ port.nan THEN Threw(by)
    ELSE [by |-> by, threw |-> FALSE, port |-> port,
          allow_insert |-> isTrueText(pe.MARIADB_ALLOW_INSERT),
          allow_update |-> isTrueText(pe.MARIADB_ALLOW_UPDATE),
          allow_delete |-> isTrueText(pe.MARIADB_ALLOW_DELETE)]

\* server-mcp-v2.cjs: the condition reads process.env.MARIADB_PORTr
getConfigFromEnv_mcpv2(pe) ==
    Configured("mcpv2",
               IF ~IsFalsy(pe.MARIADB_PORTr) THEN parseInt(pe.MARIADB_PORT)
               ELSE Num(DEFAULT_PORT),
               pe, TRUE)

\* connection.ts: portStr ? parseInt(portStr, 10) : 3306, with no check of
\* the number
getConfigFromEnv_ts(pe) ==
    Configured("ts",
               IF ~IsFalsy(pe.MARIADB_PORT) THEN parseInt(pe.MARIADB_PORT)
               ELSE Num(DEFAULT_PORT),
               pe, FALSE)

\* arg.startsWith("port=")
startsWithPort(arg) ==
    Len(arg) >= 5 /\ SubSeq(arg, 1, 5) = <<"p","o","r","t","=">>

\* The text up to the first "=" excluded.
RECURSIVE upToEquals(_)
upToEquals(s) ==
    IF s = << >> \/ Head(s) = "=" THEN << >>
    ELSE <<Head(s)>> \o upToEquals(Tail(s))

\* arg.split("=")[1], for an arg that starts with port=
splitEquals1(arg) == upToEquals(SubSeq(arg, 6, Len(arg)))

\* v1/db.js: the port of the environment, "3306" when it is null or
\* undefined, then the port of the last port= argument
RECURSIVE parseArgsAndEnvPort(_, _)
parseArgsAndEnvPort(port, cliArgs) ==
    IF cliArgs = << >> THEN port
    ELSE parseArgsAndEnvPort(
             IF startsWithPort(Head(cliArgs))
             THEN StringValue(splitEquals1(Head(cliArgs))) ELSE port,
             Tail(cliArgs))

parseArgsAndEnv(pe, cliArgs) ==
    parseArgsAndEnvPort(
        IF pe.MARIADB_PORT.kind = "undefined"
        THEN StringValue(<<"3","3","0","6">>) ELSE pe.MARIADB_PORT,
        cliArgs)

validateConfig(rawPort, pe) == Configured("v1", parseInt(rawPort), pe, TRUE)

getConfigFromEnv_v1(pe, cliArgs) == validateConfig(parseArgsAndEnv(pe, cliArgs), pe)
(***************************************************************************)
(* The executor: the builds, their calls and their connections             *)
(***************************************************************************)

\* The servers of the repository: the MySQL server (index.ts with part_000
\* and part_001), connection.ts with the validators that export
\* isAlloowedQuery, v1 (test-server.mjs with db.js), the two .cjs servers, and
\* the MariaDB server of index.ts, whose connection module keeps its pool and
\* its connection in module-level variables.
Builds == {"mysql", "ts", "v1", "mcp", "mcpv2", "index"}

NoBuild == "none"

MaxCalls == 2

CallIds == 1..MaxCalls

\* A call creates at most one connection.
ConnIds == 1..MaxCalls

NoConn == 0

\* connectionLimit of createPool
connectionLimit_v1 == 1

connectionLimit_ts == 10

connectionLimit_index == 2

connectionLimit(b) ==
    CASE b = "v1" -> connectionLimit_v1
      [] b = "index" -> connectionLimit_index
      [] OTHER -> connectionLimit_ts

\* pool.getConnection() against mariadb.createConnection()
UsesPool(b) == b \in {"mysql", "ts", "v1", "index"}

\* Promise.race of the statement with a timer; the other builds hand the
\* timeout to the driver, which has the server abort the statement.
RacesTimer(b) == b \in {"mysql", "ts"}

\* executeQuery calls the validator between USE and the statement.
ExecutorChecksPolicy(b) == b \in {"ts", "mcp", "mcpv2", "index"}

\* The catch block of executeQuery releases (ends) the connection.
catchReleases(b) == b \in {"ts", "mcp", "mcpv2", "index"}

\* The tool handler takes the database of the configuration when the call
\* names none, and refuses a call without database.
HandlerResolvesDatabase(b) == b \in {"v1", "mcp", "mcpv2"}

\* The statements and databases a caller passes.
SqlTexts ==
    { <<"S","E","L","E","C","T"," ","x">>, <<"D","R","O","P"," ","x">>,
      <<"I","N","S","E","R","T"," ","x">>, << >> }

SqlArgs == { StringValue(t) : t \in SqlTexts } \cup { Undefined }

DatabaseArgs == {NoDatabase, db0}

\* The SIGINT signals a process gets.
MaxSignals == 1

\* The tools of the facade, and a name that is none of them.
Tools == {"list_databases", "list_tables", "describe_table", "execute_query", "unknown"}

\* The character U+0060, the quote of identifiers.
BACKTICK == "U+0060"

TableTexts ==
    { <<"t">>, <<"t", BACKTICK, ";", "x">>, <<"a", " ", "D", "R", "O", "P", " ", "b">> }

TableArgs == { StringValue(t) : t \in TableTexts } \cup { Undefined }

\* The arguments a caller passes to a tool.
ArgsOf(tool) ==
    CASE tool = "execute_query"  -> SqlArgs
      [] tool = "describe_table" -> TableArgs
      [] OTHER -> { Undefined }

DatabaseArgsOf(tool) ==
    IF tool \in {"list_databases", "unknown"} THEN {NoDatabase} ELSE DatabaseArgs

SHOW_DATABASES == <<"S","H","O","W"," ","D","A","T","A","B","A","S","E","S">>

SHOW_FULL_TABLES == <<"S","H","O","W"," ","F","U","L","L"," ","T","A","B","L","E","S">>

DESCRIBE == <<"D","E","S","C","R","I","B","E">>

\* `DESCRIBE \`${table}\``
describeStatement(table) == DESCRIBE \o <<" ", BACKTICK>> \o table \o <<BACKTICK>>

\* The statement a tool hands to executeQuery.
StatementOf(tool, arg) ==
    CASE tool = "list_databases" -> StringValue(SHOW_DATABASES)
      [] tool = "list_tables"    -> StringValue(SHOW_FULL_TABLES)
      [] tool = "describe_table" -> StringValue(describeStatement(arg.text))
      [] OTHER -> arg

\* What the caller of the tool-call handler gets: the result, a response with
\* isError, a rejected promise, or nothing when the process has exited.  The
\* handler of server-mcp.cjs rethrows; those of v1 and server-mcp-v2.cjs return
\* the promise of the tool function without awaiting it, so that their catch
\* block sees only what the switch throws itself.
respond(b, outcome) ==
    CASE outcome = "ok" -> "result"
      [] outcome = "exit" -> "none"
      [] b = "mcp" -> "rejected"
      [] b \in {"v1", "mcpv2"} ->
             IF outcome = "methodNotFound" THEN "isError" ELSE "rejected"
      [] OTHER -> "isError"

\* cfg.host.split(".").join("_")
RECURSIVE replaceDots(_)
replaceDots(s) ==
    IF s = << >> THEN << >>
    ELSE <<IF Head(s) = "." THEN "_" ELSE Head(s)>> \o replaceDots(Tail(s))

\* ${cfg.database} in a template literal: undefined becomes the text undefined
templateText(v) ==
    IF v = NoDatabase THEN <<"u","n","d","e","f","i","n","e","d">> ELSE v

\* The key of the pool of a configuration: `${strHost}_${cfg.user}_${cfg.database}`
getPoolKey(cfg) ==
    replaceDots(cfg.host) \o <<"_">> \o cfg.user \o <<"_">> \o templateText(cfg.database)

\* The builds other than v1 keep their pool in the module-level variable pool.
ModulePool == <<"pool">>

PoolKey(b, cfg) == IF b = "v1" THEN getPoolKey(cfg) ELSE ModulePool

NoPool == 0

\* A pool that createPool has just returned.
NewPool(key) == [key |-> key, registered |-> TRUE, ended |-> 0]

\* pools[key] / pool: the registered pool of the key, NoPool when there is none.
PoolAt(ps, key) ==
    IF \E p \in DOMAIN ps : ps[p].key = key /\ ps[p].registered
    THEN CHOOSE p \in DOMAIN ps : ps[p].key = key /\ ps[p].registered
    ELSE NoPool

hasPool_never(ps, key) == FALSE

\* if (!pools[key]) / if (pool)
hasPool(ps, key) == PoolAt(ps, key) # NoPool

\* The check and the creation: createPool is called when the key has no pool,
\* and its result is stored under the key.
getPool(ps, key) ==
    IF hasPool(ps, key) THEN ps
    ELSE Append([p \in DOMAIN ps |->
                    IF ps[p].key = key THEN [ps[p] EXCEPT !.registered = FALSE]
                    ELSE ps[p]],
                NewPool(key))

IdleCall ==
    [pc |-> "idle", sql |-> Undefined, database |-> NoDatabase, conn |-> NoConn,
     pool |-> NoPool, usedOn |-> NoConn, tool |-> "none", table |-> Undefined,
     response |-> "none", late |-> FALSE, ranIn |-> NoDatabase, released |-> 0, policy |-> "none", sent |-> FALSE, outcome |-> "none"]

\* The database option of createPool: the database a new connection is in.
\* v1 and the two .cjs servers pass none.
InitialDatabase(b, cfg) ==
    IF b \in {"mysql", "ts", "index"} THEN cfg.database ELSE NoDatabase

NoConnection == [state |-> "absent", running |-> {}, db |-> NoDatabase]

\* The row limit is scaled down from 1000; the driver resolves a statement
\* with an array of at most MaxRows rows, or with an object that is no array.
MaxRowLimit == 3

MaxRows == 4

RowValues == {"r1", "r2"}

RECURSIVE RowsOver(_)
RowsOver(n) ==
    IF n = 0 THEN { << >> }
    ELSE RowsOver(n - 1)
         \cup { Append(s, r) : s \in { t \in RowsOver(n - 1) : Len(t) = n - 1 },
                               r \in RowValues }

NoRows == [kind |-> "object", items |-> << >>]

RowSets == { [kind |-> "array", items |-> s] : s \in RowsOver(MaxRows) } \cup { NoRows }

NoResult == [rows |-> NoRows]

\* rows.slice(0, n)
slice0(s, n) == SubSeq(s, 1, IF n < Len(s) THEN n ELSE Len(s))

\* Array.isArray(rows) && rows.length > DEFAULT_ROW_LIMIT
\*     ? rows.slice(0, DEFAULT_ROW_LIMIT) : rows
limitedRows(r, limit) ==
    IF r.kind = "array" /\ Len(r.items) > limit
    THEN [r EXCEPT !.items = slice0(r.items, limit)]
    ELSE r

\* return { rows: limitedRows, fields }
Returned(r, limit) == [rows |-> limitedRows(r, limit), fields |-> "fields"]

(***************************************************************************)
(* State                                                                   *)
(***************************************************************************)
VARIABLES
    env,        \* process.env
    config,     \* the configuration loaded at startup
    query,      \* the value handed to the validators
    phase,      \* what has been evaluated so far
    verdict,    \* the decision of each validator on query
    query2,     \* a statement derived from query
    verdict2,   \* the decision of each validator on query2
    build,      \* the server that runs
    calls,      \* the tool calls: position in the handler and in executeQuery
    conns,      \* the connections: state, and the calls whose statement the
                \* database server is executing on it
    connection, \* the module-level variable connection of index.ts
    pools,      \* the pools that createPool has returned, in order of creation
    proc,       \* the process: starting, serving, ending (SIGINT received), exited
    rowLimit,   \* DEFAULT_ROW_LIMIT
    rows,       \* what the driver resolved the statement with
    result,     \* what executeQuery returned for it
    result2,    \* what executeQuery returned for it the second time
    processEnv, \* the variables of process.env that getConfigFromEnv reads
    argv,       \* process.argv.slice(2)
    loaded,     \* what getConfigFromEnv returned, by loader
    targets,    \* two configurations
    keys        \* their pool keys

rowVars == <<rowLimit, rows, result, result2>>

configVars == <<processEnv, argv, loaded, targets, keys>>

policyVars == <<query, phase, verdict, query2, verdict2, rowVars, configVars>>

executorVars == <<build, calls, conns, connection, pools, proc>>

vars ==
    <<env, config, query, phase, verdict, query2, verdict2, build, calls, conns,
      connection, pools, proc, rowLimit, rows, result, result2,
      processEnv, argv, loaded, targets, keys>>

\* No configuration is being loaded and no key is being computed.
ConfigIdle ==
    /\ processEnv = NoProcessEnv
    /\ argv = << >>
    /\ loaded = NotLoaded
    /\ targets = << >>
    /\ keys = << >>

NoVerdict == [v \in Validators |-> FALSE]

Verdicts(value) == [v \in Validators |-> evaluate(v, value, env, config)]

(***************************************************************************)
(* The validators on their own                                             *)
(***************************************************************************)
InitPolicy ==
    /\ env \in { e \in ValidEnvValues : e.database = NoDatabase }
    /\ config = getConfigFromEnv(env)
    /\ query \in Values
    /\ phase = "input"
    /\ verdict = NoVerdict
    /\ query2 = query
    /\ verdict2 = NoVerdict
    /\ build = NoBuild
    /\ calls = [i \in CallIds |-> IdleCall]
    /\ conns = [c \in ConnIds |-> NoConnection]
    /\ connection = NoConn
    /\ pools = << >>
    /\ proc = "starting"
    /\ rowLimit = MaxRowLimit
    /\ rows = NoRows
    /\ result = NoResult
    /\ result2 = NoResult
    /\ ConfigIdle

\* Every validator decides on the value.
Evaluate ==
    /\ phase = "input"
    /\ verdict' = Verdicts(query)
    /\ phase' = "evaluated"
    /\ UNCHANGED <<env, config, query, query2, verdict2, executorVars, rowVars, configVars>>

\* The same text with one ";" appended is decided on.
EvaluateWithSemicolon ==
    /\ phase = "evaluated"
    /\ query.kind = "string"
    /\ ~includes(query.text, ";")
    /\ query2' = StringValue(query.text \o <<";">>)
    /\ verdict2' = Verdicts(query2')
    /\ phase' = "semicolon"
    /\ UNCHANGED <<env, config, query, verdict, executorVars, rowVars, configVars>>

\* The same text in another letter case is decided on.
EvaluateCaseChanged ==
    /\ phase = "evaluated"
    /\ query.kind = "string"
    /\ \E t \in CaseChanges(query.text) :
          /\ query2' = StringValue(t)
          /\ verdict2' = Verdicts(query2')
    /\ phase' = "case"
    /\ UNCHANGED <<env, config, query, verdict, executorVars, rowVars, configVars>>

\* The variables of process.env that hold the permission flags.
PermissionFlags == {"allow_insert", "allow_update", "allow_delete"}

\* process.env is writable: code in the process assigns the other value to a
\* permission flag, and the same value is decided on again.  The configuration
\* loaded at startup stays as it is.
EvaluateAfterEnvChange ==
    /\ phase = "evaluated"
    /\ \E flag \in PermissionFlags :
          /\ env' = [env EXCEPT ![flag] = ~@]
          /\ verdict2' = [v \in Validators |-> evaluate(v, query, env', config)]
    /\ query2' = query
    /\ phase' = "env"
    /\ UNCHANGED <<config, query, verdict, executorVars, rowVars, configVars>>

NextPolicy ==
    \/ Evaluate
    \/ EvaluateWithSemicolon
    \/ EvaluateCaseChanged
    \/ EvaluateAfterEnvChange

SpecPolicy == InitPolicy /\ [][NextPolicy]_vars

(***************************************************************************)
(* The row limit on its own                                                *)
(***************************************************************************)
InitRows ==
    /\ env \in { e \in ValidEnvValues :
                   e.database = NoDatabase /\ ~e.allow_insert /\ ~e.allow_update
                                           /\ ~e.allow_delete }
    /\ config = getConfigFromEnv(env)
    /\ query = Undefined
    /\ phase = "rows"
    /\ verdict = NoVerdict
    /\ query2 = Undefined
    /\ verdict2 = NoVerdict
    /\ build = NoBuild
    /\ calls = [i \in CallIds |-> IdleCall]
    /\ conns = [c \in ConnIds |-> NoConnection]
    /\ connection = NoConn
    /\ pools = << >>
    /\ proc = "starting"
    /\ rowLimit \in 1..MaxRowLimit
    /\ rows \in RowSets
    /\ result = NoResult
    /\ result2 = NoResult
    /\ ConfigIdle

\* The statement has resolved with rows: executeQuery returns.
Return ==
    /\ phase = "rows"
    /\ result' = Returned(rows, rowLimit)
    /\ phase' = "returned"
    /\ UNCHANGED <<env, config, query, verdict, query2, verdict2, executorVars,
                   rowLimit, rows, result2, configVars>>

\* The same statement is run again on the same data.
ReturnAgain ==
    /\ phase = "returned"
    /\ result2' = Returned(rows, rowLimit)
    /\ phase' = "again"
    /\ UNCHANGED <<env, config, query, verdict, query2, verdict2, executorVars,
                   rowLimit, rows, result, configVars>>

NextRows ==
    \/ Return
    \/ ReturnAgain

SpecRows == InitRows /\ [][NextRows]_vars

(***************************************************************************)
(* The executor                                                            *)
(***************************************************************************)
Init ==
    /\ env \in { e \in EnvValues :
                   /\ ~e.allow_update /\ ~e.allow_delete
                   /\ e.host = NoHost => e.user # << >> /\ e.password # ""
                   /\ e.user = << >> => e.password # "" }
    /\ config = getConfigFromEnv(env)
    /\ query = Undefined
    /\ phase = "executor"
    /\ verdict = NoVerdict
    /\ query2 = Undefined
    /\ verdict2 = NoVerdict
    /\ build \in Builds
    /\ calls = [i \in CallIds |-> IdleCall]
    /\ conns = [c \in ConnIds |-> NoConnection]
    /\ connection = NoConn
    /\ pools = << >>
    /\ proc = "starting"
    /\ rowLimit = MaxRowLimit
    /\ rows = NoRows
    /\ result = NoResult
    /\ result2 = NoResult
    /\ ConfigIdle

\* The decision of the validator that executeQuery of build b calls.
isAllowedBy(b, sql) ==
    CASE b \in {"ts", "index"} -> isAlloowedQuery(sql.text, env)
      [] b = "mcp"   -> isAlloowedQuery_mcp(sql, config)
      [] b = "mcpv2" -> isAlloowedQuery_mcpv2(sql, config)

\* connection.release() gives the connection back to the pool;
\* connection.end() closes it.
Released(b) == IF UsesPool(b) THEN "idle" ELSE "closed"

Thrown_leaks(st, i, c, outcome) ==
    [calls |-> [st.calls EXCEPT ![i].pc = "done", ![i].outcome = outcome,
                                ![i].response = respond(build, outcome)],
     conns |-> st.conns]

\* An exception thrown in the try block of executeQuery, with connection c
\* acquired: the catch block, then the finally block.
Thrown(st, i, c, outcome) ==
    IF c = NoConn
    THEN [calls |-> [st.calls EXCEPT ![i].pc = "done", ![i].outcome = outcome,
                    ![i].response = respond(build, outcome)],
          conns |-> st.conns]
    ELSE [calls |-> [st.calls EXCEPT ![i].pc = "done", ![i].outcome = outcome,
                    ![i].response = respond(build, outcome),
                                     ![i].released =
                                         @ + (IF catchReleases(build) THEN 1 ELSE 0) + 1],
          conns |-> [st.conns EXCEPT ![c].state = Released(build)]]

\* executeQuery from the end of the USE to the next await: the policy check,
\* where the build has one there, and connection.query(sql).
AfterUse(st, i, c) ==
    LET allowed ==
            IF ExecutorChecksPolicy(build) THEN isAllowedBy(build, st.calls[i].sql)
            ELSE TRUE
        checked ==
            [calls |-> [st.calls EXCEPT ![i].policy =
                            IF ~ExecutorChecksPolicy(build) THEN @
                            ELSE IF allowed THEN "allow" ELSE "deny"],
             conns |-> st.conns]
    IN  IF ~allowed THEN Thrown(checked, i, c, "policyViolation")
        ELSE [calls |-> [checked.calls EXCEPT ![i].pc = "query", ![i].sent = TRUE,
                                              ![i].usedOn = c,
                                              ![i].ranIn = st.conns[c].db],
              conns |-> [checked.conns EXCEPT ![c].running = @ \cup {i}]]

\* The connection a call issues its statements on and releases: the one it
\* acquired or, in index.ts, the one the module-level variable holds now.
ConnOf(i) == IF build = "index" THEN connection ELSE calls[i].conn

\* The module is loaded: the configuration is read and, in src/src/index.ts
\* (MySQL variant), the pool is created; an exception ends the process.  The
\* MariaDB variant of index.ts reads no configuration here.
Startup ==
    /\ proc = "starting"
    /\ build # NoBuild
    /\ IF build # "index" /\ getConfigFromEnvThrows(env)
       THEN proc' = "exited" /\ pools' = pools
       ELSE /\ proc' = "serving"
            /\ pools' = IF build \in {"mysql", "ts"}
                         THEN Append(pools, NewPool(ModulePool))
                         ELSE pools
    /\ UNCHANGED <<env, config, policyVars, build, calls, conns, connection>>

\* The event loop runs handlers and callbacks until process.exit.
Alive == {"serving", "ending"}

\* process.exit: the pending calls, the connections and the variables of the
\* process are gone.
Exit ==
    /\ proc' = "exited"
    /\ calls' = [i \in CallIds |-> IdleCall]
    /\ conns' = [c \in ConnIds |-> NoConnection]
    /\ connection' = NoConn

\* SIGINT: the handler ends the pool of index.ts and awaits that; the handlers
\* of v1, server-mcp.cjs and server-mcp-v2.cjs call process.exit(0) at once.
Sigint ==
    /\ proc \in Alive
    /\ LET p == PoolAt(pools, ModulePool)
       IN  IF build \in {"mysql", "ts", "index"} /\ p # NoPool
           THEN /\ pools[p].ended < MaxSignals
                /\ pools' = [pools EXCEPT ![p].ended = @ + 1]
                /\ proc' = "ending"
                /\ UNCHANGED <<calls, conns, connection>>
           ELSE /\ pools' = pools
                /\ Exit
    /\ UNCHANGED <<env, config, policyVars, build>>

\* await pool.end() resolves, and the SIGINT handler calls process.exit(0).
PoolEnded ==
    /\ proc = "ending"
    /\ Exit
    /\ UNCHANGED <<env, config, policyVars, build, pools>>

\* A tool call arrives: the handler, the tool and executeQuery up to the
\* first await.
Call(i, tool, arg, db) ==
    /\ proc \in Alive
    /\ calls[i].pc = "idle"
    /\ build = "ts" => tool = "execute_query" /\ arg.kind = "string"
    /\ LET database ==
               IF HandlerResolvesDatabase(build) /\ db = NoDatabase
                  /\ tool \notin {"list_databases", "unknown"}
               THEN config.database ELSE db
           sql == StatementOf(tool, arg)
           arrived == [calls EXCEPT ![i].tool = tool, ![i].sql = sql,
                                    ![i].late = (proc = "ending"),
                                    ![i].table = IF tool = "describe_table" THEN arg
                                                 ELSE Undefined,
                                    ![i].database = database]
           \* createConnectionPool() of the handler of index.ts, and the
           \* check of pools[key] in executeQuery of v1
           created ==
               IF build \in {"v1", "index"}
               THEN getPool(pools, PoolKey(build, config))
               ELSE pools
           refused(outcome, policy) ==
               [calls |-> [arrived EXCEPT ![i].pc = "done", ![i].policy = policy,
                                          ![i].outcome = outcome,
                                          ![i].response = respond(build, outcome)],
                conns |-> conns]
           accepted(policy) ==
               [calls |-> [arrived EXCEPT ![i].pc = "getConnection",
                                          ![i].policy = policy,
                                          ![i].pool =
                                              IF UsesPool(build)
                                              THEN PoolAt(created, PoolKey(build, config))
                                              ELSE NoPool],
                conns |-> conns]
           \* index.ts: executeQuery goes on with the connection of an earlier call
           reused ==
               IF database # NoDatabase
               THEN [calls |-> [arrived EXCEPT ![i].pc = "use",
                                               ![i].usedOn = connection],
                     conns |-> conns]
               ELSE AfterUse([calls |-> arrived, conns |-> conns], i, connection)
           \* the checks of the tool before it calls executeQuery
           missing ==
               \/ /\ HandlerResolvesDatabase(build)
                  /\ tool # "list_databases"
                  /\ database = NoDatabase
               \/ tool \in {"describe_table", "execute_query"} /\ IsFalsy(arg)
           next ==
             CASE build = "ts" -> accepted("none")
               [] tool = "unknown" -> refused("methodNotFound", "none")
               [] missing -> refused("invalidParams", "none")
               [] build = "mysql" /\ tool = "execute_query" ->
                    IF ~validateQuery_mysql(sql)
                    THEN refused("policyViolation", "deny")
                    ELSE accepted("allow")
               [] build = "index" /\ connection # NoConn -> reused
               [] OTHER -> accepted("none")
       IN  IF build = "index" /\ getConfigFromEnvThrows(env)
           THEN \* process.exit(1) in the handler
                /\ proc' = "exited"
                /\ calls' = [arrived EXCEPT ![i].pc = "done", ![i].outcome = "exit",
                                            ![i].response = respond(build, "exit")]
                /\ UNCHANGED <<conns, pools>>
           ELSE /\ calls' = next.calls
                /\ conns' = next.conns
                /\ pools' = IF build = "index" \/ next.calls[i].pc = "getConnection"
                             THEN created ELSE pools
                /\ proc' = proc
    /\ UNCHANGED <<env, config, policyVars, build, connection>>

\* The connections the pool holds.
PoolSize == Cardinality({ c \in ConnIds : conns[c].state \in {"idle", "leased"} })

\* The connection that getConnection / createConnection resolves with: an
\* idle connection of the pool, or a new one.
CanAcquire(c) ==
    IF UsesPool(build)
    THEN \/ conns[c].state = "idle"
         \/ /\ \A d \in ConnIds : conns[d].state # "idle"
            /\ PoolSize < connectionLimit(build)
            /\ conns[c].state = "absent"
            /\ \A d \in ConnIds : conns[d].state = "absent" => c <= d
    ELSE /\ conns[c].state = "absent"
         /\ \A d \in ConnIds : conns[d].state = "absent" => c <= d

\* await pool.getConnection() / mariadb.createConnection() resolves, and
\* executeQuery runs to its next await.
GetConnection(i) ==
    /\ proc \in Alive
    /\ calls[i].pc = "getConnection"
    /\ UsesPool(build) => pools[calls[i].pool].ended = 0
    /\ \E c \in ConnIds :
          /\ CanAcquire(c)
          /\ LET leased ==
                     [calls |-> [calls EXCEPT ![i].conn = c, ![i].pc = "use",
                                              ![i].usedOn = c],
                      conns |-> [conns EXCEPT ![c].state = "leased",
                                               ![c].db =
                                                   IF conns[c].state = "absent"
                                                   THEN InitialDatabase(build, config)
                                                   ELSE @]]
                 next ==
                     IF calls[i].database # NoDatabase THEN leased
                     ELSE AfterUse(leased, i, c)
             IN  calls' = next.calls /\ conns' = next.conns
          /\ connection' = IF build = "index" THEN c ELSE connection
    /\ UNCHANGED <<env, config, policyVars, build, pools, proc>>

\* It rejects: the call has acquired no connection.  In index.ts the rejection
\* is caught in executeQuery, whose catch and finally blocks release the
\* connection that the module-level variable holds.
GetConnectionFails(i) ==
    /\ proc \in Alive
    /\ calls[i].pc = "getConnection"
    /\ LET next ==
               IF build = "index"
               THEN Thrown([calls |-> calls, conns |-> conns], i, connection,
                           "connectError")
               ELSE [calls |-> [calls EXCEPT ![i].pc = "done",
                                             ![i].outcome = "connectError",
                    ![i].response = respond(build, "connectError")],
                     conns |-> conns]
       IN  calls' = next.calls /\ conns' = next.conns
    /\ UNCHANGED <<env, config, policyVars, build, connection, pools, proc>>

\* await connection.query("USE ...") resolves.
UseResolves(i) ==
    /\ proc \in Alive
    /\ calls[i].pc = "use"
    /\ LET next == AfterUse([calls |-> calls,
                             conns |-> [conns EXCEPT ![ConnOf(i)].db =
                                                         calls[i].database]],
                            i, ConnOf(i))
       IN  calls' = next.calls /\ conns' = next.conns
    /\ UNCHANGED <<env, config, policyVars, build, connection, pools, proc>>

\* It rejects.
UseRejects(i) ==
    /\ proc \in Alive
    /\ calls[i].pc = "use"
    /\ LET next == Thrown([calls |-> calls, conns |-> conns], i, ConnOf(i),
                          "useError")
       IN  calls' = next.calls /\ conns' = next.conns
    /\ UNCHANGED <<env, config, policyVars, build, connection, pools, proc>>

\* The statement resolves: the rows are returned, and the finally block runs.
QueryResolves(i) ==
    /\ proc \in Alive
    /\ calls[i].pc = "query"
    /\ calls' = [calls EXCEPT ![i].pc = "done", ![i].outcome = "ok",
                    ![i].response = respond(build, "ok"),
                              ![i].released = @ + 1]
    /\ conns' = [c \in ConnIds |->
                    [state   |-> IF c = ConnOf(i) THEN Released(build)
                                 ELSE conns[c].state,
                     running |-> IF c = calls[i].usedOn THEN conns[c].running \ {i}
                                 ELSE conns[c].running,
                     db      |-> conns[c].db]]
    /\ UNCHANGED <<env, config, policyVars, build, connection, pools, proc>>

\* The statement rejects: the server refused it or, where the driver holds
\* the timeout, aborted it.
QueryRejects(i, outcome) ==
    /\ proc \in Alive
    /\ calls[i].pc = "query"
    /\ outcome = "timeout" => ~RacesTimer(build)
    /\ LET next == Thrown([calls |-> calls,
                           conns |-> [conns EXCEPT ![calls[i].usedOn].running = @ \ {i}]],
                          i, ConnOf(i), outcome)
       IN  calls' = next.calls /\ conns' = next.conns
    /\ UNCHANGED <<env, config, policyVars, build, connection, pools, proc>>

\* The timer of Promise.race rejects first: the statement goes on in the
\* database server.
QueryTimeout(i) ==
    /\ proc \in Alive
    /\ calls[i].pc = "query"
    /\ RacesTimer(build)
    /\ LET next == Thrown([calls |-> calls, conns |-> conns], i, ConnOf(i),
                          "timeout")
       IN  calls' = next.calls /\ conns' = next.conns
    /\ UNCHANGED <<env, config, policyVars, build, connection, pools, proc>>

\* The database server ends a statement whose call has timed out.
ServerFinishes(c, i) ==
    /\ i \in conns[c].running
    /\ calls[i].pc = "done"
    /\ conns' = [conns EXCEPT ![c].running = @ \ {i}]
    /\ UNCHANGED <<env, config, policyVars, build, calls, connection, pools, proc>>

Next ==
    \/ Startup
    \/ Sigint
    \/ PoolEnded
    \/ \E i \in CallIds, tool \in Tools :
          \E arg \in ArgsOf(tool), db \in DatabaseArgsOf(tool) : Call(i, tool, arg, db)
    \/ \E i \in CallIds : GetConnection(i)
    \/ \E i \in CallIds : GetConnectionFails(i)
    \/ \E i \in CallIds : UseResolves(i)
    \/ \E i \in CallIds : UseRejects(i)
    \/ \E i \in CallIds : QueryResolves(i)
    \/ \E i \in CallIds, outcome \in {"queryError", "timeout"} : QueryRejects(i, outcome)
    \/ \E i \in CallIds : QueryTimeout(i)
    \/ \E c \in ConnIds, i \in CallIds : ServerFinishes(c, i)

Spec == Init /\ [][Next]_vars

(***************************************************************************)
(* The configuration loaders and the pool key on their own                 *)
(***************************************************************************)
TargetHosts == { <<"a",".","b">>, <<"a","_","b">>, <<"a">> }

TargetUsers == { <<"u">>, <<"b","_","u">> }

TargetDatabases == { NoDatabase, <<"d">> }

Targets == [host : TargetHosts, user : TargetUsers, database : TargetDatabases]

InitConfig ==
    /\ env \in { e \in ValidEnvValues :
                   e.database = NoDatabase /\ ~e.allow_insert /\ ~e.allow_update
                                           /\ ~e.allow_delete }
    /\ config = getConfigFromEnv(env)
    /\ query = Undefined
    /\ phase = "config"
    /\ verdict = NoVerdict
    /\ query2 = Undefined
    /\ verdict2 = NoVerdict
    /\ build = NoBuild
    /\ calls = [i \in CallIds |-> IdleCall]
    /\ conns = [c \in ConnIds |-> NoConnection]
    /\ connection = NoConn
    /\ pools = << >>
    /\ proc = "starting"
    /\ rowLimit = MaxRowLimit
    /\ rows = NoRows
    /\ result = NoResult
    /\ result2 = NoResult
    /\ loaded = NotLoaded
    /\ keys = << >>
    /\ \/ /\ processEnv \in ProcessEnvValues
          /\ argv \in ArgvValues
          /\ targets = << >>
       \/ /\ processEnv = NoProcessEnv
          /\ argv = << >>
          /\ targets \in Targets \X Targets

unchangedByConfig ==
    <<env, config, query, phase, verdict, query2, verdict2, executorVars, rowVars>>

\* getConfigFromEnv of server-mcp-v2.cjs runs.
LoadMcpv2 ==
    /\ phase = "config" /\ targets = << >> /\ loaded = NotLoaded
    /\ loaded' = getConfigFromEnv_mcpv2(processEnv)
    /\ UNCHANGED <<unchangedByConfig, processEnv, argv, targets, keys>>

\* getConfigFromEnv of connection.ts runs.
LoadTs ==
    /\ phase = "config" /\ targets = << >> /\ loaded = NotLoaded
    /\ loaded' = getConfigFromEnv_ts(processEnv)
    /\ UNCHANGED <<unchangedByConfig, processEnv, argv, targets, keys>>

\* getConfigFromEnv of v1/db.js runs.
LoadV1 ==
    /\ phase = "config" /\ targets = << >> /\ loaded = NotLoaded
    /\ loaded' = getConfigFromEnv_v1(processEnv, argv)
    /\ UNCHANGED <<unchangedByConfig, processEnv, argv, targets, keys>>

\* getPoolKey runs on each of the two configurations.
GetPoolKeys ==
    /\ phase = "config" /\ targets # << >> /\ keys = << >>
    /\ keys' = <<getPoolKey(targets[1]), getPoolKey(targets[2])>>
    /\ UNCHANGED <<unchangedByConfig, processEnv, argv, loaded, targets>>

NextConfig ==
    \/ LoadMcpv2
    \/ LoadTs
    \/ LoadV1
    \/ GetPoolKeys

SpecConfig == InitConfig /\ [][NextConfig]_vars

(***************************************************************************)
(* The vocabulary of the specification's policy (section 4.1)              *)
(***************************************************************************)
ReadVerbs ==
    { <<"S","E","L","E","C","T">>,
      <<"S","H","O","W">>,
      <<"D","E","S","C","R","I","B","E">>,
      <<"D","E","S","C">>,
      <<"E","X","P","L","A","I","N">> }

WriteVerbs == { INSERT, UPDATE, DELETE }

ForbiddenVerbs ==
    { <<"D","R","O","P">>,
      <<"C","R","E","A","T","E">>,
      <<"A","L","T","E","R">>,
      <<"T","R","U","N","C","A","T","E">>,
      <<"R","E","N","A","M","E">>,
      <<"R","E","P","L","A","C","E">>,
      <<"G","R","A","N","T">>,
      <<"R","E","V","O","K","E">>,
      <<"L","O","C","K">>,
      <<"U","N","L","O","C","K">>,
      <<"C","A","L","L">>,
      <<"E","X","E","C">>,
      <<"E","X","E","C","U","T","E">>,
      <<"S","E","T">>,
      <<"S","T","A","R","T">>,
      <<"B","E","G","I","N">>,
      <<"C","O","M","M","I","T">>,
      <<"R","O","L","L","B","A","C","K">> }

\* The permission flag of a write verb.
Flag(e, verb) ==
    CASE verb = INSERT -> e.allow_insert
      [] verb = UPDATE -> e.allow_update
      [] verb = DELETE -> e.allow_delete

\* No permission flag is set.
NoFlags == [allow_insert |-> FALSE, allow_update |-> FALSE, allow_delete |-> FALSE]

AllowList(e) == ReadVerbs \cup { w \in WriteVerbs : Flag(e, w) }

DenyList(e) == ForbiddenVerbs \cup { w \in WriteVerbs : ~Flag(e, w) }

IsWordCharacter(c) ==
    c \in DOMAIN UpperOf \cup DOMAIN LowerOf
            \cup {"0", "1", "2", "3", "4", "5", "6", "7", "8", "9", "_"}

\* w stands in n as a whole word: no word character on either side of it.
ContainsWholeWord(n, w) ==
    \E i \in 1..Len(n) :
        /\ HasAt(n, w, i)
        /\ i = 1 \/ ~IsWordCharacter(n[i - 1])
        /\ i + Len(w) > Len(n) \/ ~IsWordCharacter(n[i + Len(w)])

\* The text starts with the verb and a space, or is the verb.
BeginsWith(n, verb) == startsWith(n, verb \o <<" ">>) \/ n = verb

\* A semicolon that is not the final character.
HasInternalSemicolon(n) == \E i \in 1..(Len(n) - 1) : n[i] = ";"

\* t is s with the case of some ASCII letters changed.
AsciiCaseChange(s, t) ==
    /\ Len(s) = Len(t)
    /\ \A i \in 1..Len(s) :
          \/ s[i] = t[i]
          \/ /\ s[i] # KELVIN /\ t[i] # KELVIN
             /\ toUpperCaseChar(s[i]) = toUpperCaseChar(t[i])

Evaluated == phase \in {"evaluated", "semicolon", "case"}

(***************************************************************************)
(* Properties of the policy                                                *)
(***************************************************************************)

\* C2: a statement whose normalized text begins with INSERT, UPDATE or DELETE,
\* with no other deny-list verb and no internal semicolon, is allowed if and
\* only if the flag of its verb is set (validators.ts of v2, server-mcp-v2.cjs,
\* server-mcp.cjs).
C2_WriteAllowedIffFlag ==
    (Evaluated /\ query.kind = "string") =>
        \E n \in {normalize(query.text)} :
        \A verb \in WriteVerbs :
            ( /\ BeginsWith(n, verb)
              /\ \A w \in DenyList(env) \ {verb} : ~ContainsWholeWord(n, w)
              /\ ~HasInternalSemicolon(n) )
            => \A v \in {"v2ts", "mcpv2", "mcp"} : verdict[v] <=> Flag(env, verb)

\* C3: a statement whose normalized text holds a verb of the deny-list as a
\* whole word, anywhere, is denied (validators.ts of v2, v1/test-server.mjs).
C3_DenyVerbAnywhereDenied ==
    (Evaluated /\ query.kind = "string") =>
        \E n \in {normalize(query.text)} :
            (\E w \in DenyList(env) : ContainsWholeWord(n, w))
            => \A v \in {"v2ts", "v1"} : ~verdict[v]

\* C4: a statement whose normalized text holds a semicolon that is not its
\* final character is denied, also when it ends with a semicolon as well
\* (MySQL validators, validators.ts of v2).
C4_InternalSemicolonDenied ==
    (Evaluated /\ query.kind = "string") =>
        (HasInternalSemicolon(normalize(query.text))
            => \A v \in {"mysql", "v2ts"} : ~verdict[v])

\* C5: a statement whose normalized text begins with SELECT, SHOW, DESCRIBE,
\* DESC or EXPLAIN (followed by a space, or alone), with no deny-list verb as
\* a whole word and no internal semicolon, is allowed: by validators.ts of v2
\* under every combination of the flags, and by the MySQL validators, which
\* have no flags and hold INSERT, UPDATE and DELETE in their deny-list.
C5_ReadStatementsAllowed ==
    (Evaluated /\ query.kind = "string") =>
        \E n \in {normalize(query.text)} :
            ((\E verb \in ReadVerbs : BeginsWith(n, verb)) /\ ~HasInternalSemicolon(n))
            => /\ (\A w \in DenyList(env) : ~ContainsWholeWord(n, w)) => verdict["v2ts"]
               /\ (\A w \in DenyList(NoFlags) : ~ContainsWholeWord(n, w))
                      => verdict["mysql"]

\* C5 happens: a read statement with a trailing semicolon is allowed by both
\* validators while a permission flag is set.
C5_Witness ==
    /\ Evaluated /\ query.kind = "string"
    /\ env.allow_delete
    /\ \E n \in {normalize(query.text)} :
          /\ \E verb \in ReadVerbs : BeginsWith(n, verb)
          /\ ~HasInternalSemicolon(n) /\ includes(n, ";")
          /\ \A w \in DenyList(NoFlags) : ~ContainsWholeWord(n, w)
    /\ verdict["v2ts"] /\ verdict["mysql"]

\* C6: an input that is empty or not a string is denied, and so is every
\* statement whose normalized text neither starts with a verb of the
\* allow-list and a space nor is such a verb; INSERT, UPDATE and DELETE are
\* on the allow-list only when their flag is set (the two validators.ts of
\* the MariaDB server).
C6_OthersDenied ==
    Evaluated =>
        \A v \in {"ts", "v2ts"} :
            /\ (query.kind # "string" \/ query.text = << >>) => ~verdict[v]
            /\ ( /\ query.kind = "string"
                 /\ \A verb \in AllowList(env) : ~BeginsWith(normalize(query.text), verb) )
               => ~verdict[v]

\* C7 as stated: a statement without semicolon that is allowed, a bare verb
\* included, is allowed with one ";" appended.
C7_TrailingSemicolonTolerated ==
    phase = "semicolon" =>
        \A v \in {"v2ts", "mysql"} : verdict[v] => verdict2[v]

\* C7, amended: a statement without semicolon that is allowed, and whose
\* normalized text is more than a bare verb, is allowed with one ";" appended.
C7_TrailingSemicolonAfterVerbAndSpace ==
    (phase = "semicolon" /\ normalize(query.text) \notin ReadVerbs \cup WriteVerbs) =>
        \A v \in {"v2ts", "mysql"} : verdict[v] => verdict2[v]

\* C7 happens: a statement that is more than a bare verb is allowed without
\* and with the semicolon.
C7_Witness ==
    /\ phase = "semicolon"
    /\ normalize(query.text) \notin ReadVerbs \cup WriteVerbs
    /\ query2.text = query.text \o <<";">>
    /\ verdict["v2ts"] /\ verdict2["v2ts"]
    /\ verdict["mysql"] /\ verdict2["mysql"]

\* C8 as stated: a statement and the same statement with the letter case of
\* some of its characters changed get the same decision.
C8_CaseInsensitive ==
    phase = "case" =>
        \A v \in {"v2ts", "mysql"} : verdict2[v] = verdict[v]

\* C8, amended: a statement and the same statement with the case of some of
\* its ASCII letters changed get the same decision.
C8_AsciiCaseInsensitive ==
    (phase = "case" /\ AsciiCaseChange(query.text, query2.text)) =>
        \A v \in {"v2ts", "mysql"} : verdict2[v] = verdict[v]

\* C8 happens: an allowed statement stays allowed in another ASCII case, and
\* a denied one stays denied for the validator with the flags.
C8_Witness ==
    /\ phase = "case"
    /\ AsciiCaseChange(query.text, query2.text)
    /\ query2.text # query.text
    /\ verdict["mysql"] /\ verdict2["mysql"]
    /\ verdict["v2ts"] /\ verdict2["v2ts"]

(***************************************************************************)
(* Properties of the executor                                              *)
(***************************************************************************)

\* C1: a statement is passed to connection.query only if the policy has
\* evaluated it to allow; a call the policy denies fails with the policy
\* violation, has not passed its statement on and holds no connection.
C1_SentOnlyIfAllowed ==
    \A i \in CallIds :
        /\ calls[i].sent => calls[i].policy = "allow"
        /\ (calls[i].policy = "deny" /\ calls[i].pc = "done") =>
              /\ calls[i].outcome = "policyViolation"
              /\ ~calls[i].sent
              /\ calls[i].conn # NoConn => calls[i].released >= 1

\* C9: a call of executeQuery that acquired a connection and has ended has
\* released (ended) it exactly once.
C9_ExactlyOneRelease ==
    \A i \in CallIds :
        (calls[i].pc = "done" /\ calls[i].conn # NoConn) => calls[i].released = 1

\* C10: a connection on which the statement of a timed-out call may still be
\* executing is neither back in the pool nor in the hands of another call.
C10_TimedOutConnectionDiscarded ==
    \A c \in ConnIds : \A i \in conns[c].running :
        calls[i].outcome = "timeout" =>
            /\ conns[c].state # "idle"
            /\ \A j \in CallIds \ {i} :
                  ~(calls[j].conn = c /\ calls[j].pc \in {"use", "query"})

(***************************************************************************)
(* The executor with its timers: a timer that the program has set fires.   *)
(* Nothing makes the database server answer.                               *)
(***************************************************************************)
SpecLive == Spec /\ \A i \in CallIds : WF_vars(QueryTimeout(i))

\* C11: a call that has acquired its connection ends, with a result or an
\* error, whether or not the database server answers its USE and its
\* statement, unless the process exits before.
C11_CallsComplete ==
    \A i \in CallIds :
        (calls[i].pc \in {"use", "query"}) ~> (calls[i].pc = "done" \/ proc = "exited")

\* C12: a call that is between its acquire and its release issues its USE and
\* its statement on the connection it acquired, and no other call that is in
\* flight issues its own on that connection.
C12_ConnectionNotShared ==
    \A i \in CallIds :
        calls[i].pc \in {"use", "query"} =>
            /\ calls[i].conn # NoConn
            /\ calls[i].usedOn = calls[i].conn
            /\ \A j \in CallIds \ {i} :
                  calls[j].pc \in {"use", "query"} => calls[j].usedOn # calls[i].usedOn

\* The connections that are open: leased to a call, or idle in the pool.
OpenConnections == { c \in ConnIds : conns[c].state \in {"idle", "leased"} }

\* C13: the connections open at the same time are at most the configured
\* limit of a pool: a second connection is open beside the first only in a
\* build that draws its connections from a pool, and never beyond that pool's
\* connectionLimit.
C13_OpenConnectionsBounded ==
    /\ UsesPool(build) => Cardinality(OpenConnections) <= connectionLimit(build)
    /\ Cardinality(OpenConnections) >= 2 => UsesPool(build)

\* C14: the createPool calls made so far have returned at most one pool per
\* key, and every call that has reached executeQuery draws its connection from
\* that pool, whatever database it names.
C14_OnePoolPerKey ==
    /\ \A p, q \in DOMAIN pools : pools[p].key = pools[q].key => p = q
    /\ \A i \in CallIds :
          calls[i].pool # NoPool =>
              /\ calls[i].pool = PoolAt(pools, PoolKey(build, config))
              /\ \A j \in CallIds :
                    calls[j].pool # NoPool => calls[j].pool = calls[i].pool

\* Two calls that name different databases and interleave have both taken
\* their pool from the registry that the first of them filled.
C14_Witness ==
    /\ build \in {"v1", "index"}
    /\ \A i \in CallIds : calls[i].pool # NoPool /\ calls[i].pc # "done"
    /\ \E i, j \in CallIds : calls[i].database # calls[j].database

\* C15: for a result of n rows and the limit L, what executeQuery returns
\* holds the first min(n, L) rows in their order and a field truncated that
\* is true exactly when n > L; the second run returns the same.
C15_RowLimit ==
    (phase \in {"returned", "again"} /\ rows.kind = "array") =>
        LET n == Len(rows.items)
            m == IF n < rowLimit THEN n ELSE rowLimit
        IN  /\ result.rows.kind = "array"
            /\ result.rows.items = [k \in 1..m |-> rows.items[k]]
            /\ phase = "again" => result2 = result
            /\ "truncated" \in DOMAIN result
            /\ result["truncated"] = (n > rowLimit)

\* C16: whatever fails below the tool-call handler, the handler returns a
\* response with the error message and the error flag: a call that has ended
\* without a result has been answered with such a response.
C16_ErrorsReturned ==
    \A i \in CallIds :
        calls[i].pc = "done" =>
            calls[i].response = IF calls[i].outcome = "ok" THEN "result" ELSE "isError"

\* C17: in a running server, a list_tables call that names no database, with
\* no default database configured, ends with a missing-parameter error, and has acquired no
\* connection and sent no statement.
C17_ListTablesNeedsDatabase ==
    \A i \in CallIds :
        (/\ calls[i].tool = "list_tables"
         /\ calls[i].database = NoDatabase
         /\ config.database = NoDatabase
         /\ proc = "serving") =>
            /\ calls[i].pc = "done"
            /\ calls[i].outcome = "invalidParams"
            /\ calls[i].conn = NoConn
            /\ calls[i].usedOn = NoConn
            /\ ~calls[i].sent

\* The content of the quoted identifier that s begins with, and what follows
\* it in s: the identifier runs from a quote to the next quote that is not
\* doubled, and a doubled quote stands for one quote of the content.
RECURSIVE ReadQuoted(_, _)
ReadQuoted(s, content) ==
    IF s = << >> THEN [closed |-> FALSE, content |-> content, rest |-> << >>]
    ELSE IF Head(s) # BACKTICK THEN ReadQuoted(Tail(s), Append(content, Head(s)))
    ELSE IF Len(s) >= 2 /\ s[2] = BACKTICK
         THEN ReadQuoted(Tail(Tail(s)), Append(content, BACKTICK))
         ELSE [closed |-> TRUE, content |-> content, rest |-> Tail(s)]

\* The statement is DESCRIBE followed by one quoted identifier, the name, and
\* nothing else.
DescribesOnly(statement, name) ==
    /\ Len(statement) > Len(DESCRIBE) + 1
    /\ SubSeq(statement, 1, Len(DESCRIBE) + 2) = DESCRIBE \o <<" ", BACKTICK>>
    /\ LET identifier ==
               ReadQuoted(SubSeq(statement, Len(DESCRIBE) + 3, Len(statement)), << >>)
       IN  /\ identifier.closed
           /\ identifier.content = name
           /\ identifier.rest = << >>

\* C18: the statement that describe_table sends for a table name is DESCRIBE
\* followed by exactly one quoted identifier whose content is that name.
C18_TableNameQuoted ==
    \A i \in CallIds :
        (calls[i].tool = "describe_table" /\ calls[i].sent) =>
            DescribesOnly(calls[i].sql.text, calls[i].table.text)

\* C19: when the process has exited, every pool that was created has been
\* ended exactly once; and a call that arrived after the shutdown began has
\* acquired no connection, sent nothing and got no result.
C19_ShutdownEndsPools ==
    /\ proc = "exited" => \A p \in DOMAIN pools : pools[p].ended = 1
    /\ \A i \in CallIds :
          calls[i].late =>
              /\ calls[i].conn = NoConn
              /\ calls[i].usedOn = NoConn
              /\ ~calls[i].sent
              /\ calls[i].outcome # "ok"

\* C20: when host, user or password is missing in the environment, the
\* process fails at startup: it never serves, it creates no pool, it opens no
\* connection, and no tool call is handled.
C20_InvalidConfigurationFatal ==
    getConfigFromEnvThrows(env) =>
        /\ proc \in {"starting", "exited"}
        /\ pools = << >>
        /\ \A c \in ConnIds : conns[c].state = "absent"
        /\ \A i \in CallIds : calls[i].pc = "idle"

\* C21: executeQuery acquires, then switches the database, then evaluates the
\* policy (in the builds whose executeQuery evaluates it), then sends the
\* statement; a call whose USE failed has ended with that error, with the
\* policy not evaluated, the statement not sent and the connection released.
C21_UseFailureAborts ==
    \A i \in CallIds :
        /\ calls[i].pc = "use" =>
              /\ calls[i].usedOn # NoConn
              /\ ~calls[i].sent
              /\ ExecutorChecksPolicy(build) => calls[i].policy = "none"
        /\ calls[i].sent =>
              /\ calls[i].usedOn # NoConn
              /\ ExecutorChecksPolicy(build) => calls[i].policy = "allow"
        /\ calls[i].outcome = "useError" =>
              /\ calls[i].pc = "done"
              /\ ~calls[i].sent
              /\ ExecutorChecksPolicy(build) => calls[i].policy = "none"
              /\ calls[i].released >= 1

\* The USE of a call has failed in a build whose executeQuery evaluates the
\* policy, for a statement the policy would have denied.
C21_Witness ==
    \E i \in CallIds :
        /\ ExecutorChecksPolicy(build)
        /\ calls[i].outcome = "useError"
        /\ calls[i].database # NoDatabase
        /\ ~isAllowedBy(build, calls[i].sql)

\* C22: the statement of a tool that takes a database runs in the database
\* that its call names or, when the call names none, in the default database
\* of the configuration.
C22_DatabaseOfTheCall ==
    \A i \in CallIds :
        (calls[i].sent /\ calls[i].tool # "list_databases") =>
            calls[i].ranIn = IF calls[i].database # NoDatabase THEN calls[i].database
                             ELSE config.database

\* C23: a call issues its USE and its statement on a connection that it has
\* acquired itself and that is still leased; no statement is sent on a lease
\* of another call or on a connection that was released.
C23_NoUseAfterRelease ==
    \A i \in CallIds :
        /\ calls[i].pc \in {"use", "query"} =>
              /\ calls[i].usedOn # NoConn
              /\ calls[i].usedOn = calls[i].conn
              /\ conns[calls[i].usedOn].state = "leased"
        /\ calls[i].sent => calls[i].usedOn = calls[i].conn

\* C24: when every call that was started has ended, no connection is leased.
C24_NothingLeasedAtRest ==
    (proc = "serving" /\ \A i \in CallIds : calls[i].pc \in {"idle", "done"}) =>
        \A c \in ConnIds : conns[c].state # "leased"

\* C25: every validator decides on a statement as it did before, whatever
\* was assigned to process.env between the two evaluations: the decision is
\* that of the permission flags loaded at startup.
C25_DecisionFromStartupFlags ==
    phase = "env" => \A v \in Validators : verdict2[v] = verdict[v]

\* A write statement was judged, one of the permission variables of the
\* environment then changed, and the statement was judged again.
C25_Witness ==
    /\ phase = "env"
    /\ query.kind = "string"
    /\ startsWithCommand(INSERT, normalize(query.text))
    /\ env.allow_insert # config.allow_insert
    /\ verdict["v2ts"] = verdict2["v2ts"]

\* C26: a describe_table call whose table argument is absent or empty ends
\* with a missing-parameter error that is answered to the caller, and has
\* acquired no connection and sent no statement.
C26_DescribeTableNeedsTable ==
    \A i \in CallIds :
        (calls[i].tool = "describe_table" /\ IsFalsy(calls[i].table)) =>
            /\ calls[i].pc = "done"
            /\ calls[i].outcome = "invalidParams"
            /\ calls[i].response \in {"isError", "rejected"}
            /\ calls[i].conn = NoConn
            /\ calls[i].usedOn = NoConn
            /\ ~calls[i].sent

\* The text is a decimal numeral.
IsNumeral(value) ==
    /\ value.kind = "string"
    /\ value.text # << >>
    /\ \A k \in DOMAIN value.text : value.text[k] \in DOMAIN DigitValue

\* The port that was supplied to the loader: that of the last port= argument
\* where the loader reads the command line, that of MARIADB_PORT otherwise.
SuppliedPort(by) ==
    LET K == { k \in DOMAIN argv : startsWithPort(argv[k]) }
    IN  IF by = "v1" /\ K # {}
        THEN StringValue(splitEquals1(argv[CHOOSE k \in K : \A j \in K : j <= k]))
        ELSE processEnv.MARIADB_PORT

\* C27: a configuration loaded from an environment of the documented
\* variables has port 3306 when no port was supplied and the supplied number
\* when one was supplied, and each permission flag is true exactly when its
\* variable is the text true.
C27_PortAndFlags ==
    (loaded # NotLoaded /\ processEnv.MARIADB_PORTr = Undefined) =>
        \E supplied \in {SuppliedPort(loaded.by)} :
            /\ supplied.kind = "undefined" =>
                   ~loaded.threw /\ loaded.port = Num(DEFAULT_PORT)
            /\ IsNumeral(supplied) =>
                   ~loaded.threw /\ loaded.port = Num(parseDigits(supplied.text, 0))
            /\ ~loaded.threw =>
                   /\ loaded.allow_insert = isTrueText(processEnv.MARIADB_ALLOW_INSERT)
                   /\ loaded.allow_update = isTrueText(processEnv.MARIADB_ALLOW_UPDATE)
                   /\ loaded.allow_delete = isTrueText(processEnv.MARIADB_ALLOW_DELETE)

\* C28: two configurations that differ in host, user or default database
\* have different pool keys.
C28_PoolKeyInjective ==
    (keys # << >> /\ targets[1] # targets[2]) => keys[1] # keys[2]

FacadeTools == {"list_databases", "list_tables", "describe_table"}

\* C29: a statement that list_databases, list_tables or describe_table has
\* built, the last for a table name with no quote character in it, is never
\* refused by the policy check of the executor.
C29_FacadeStatementsAllowed ==
    \A i \in CallIds :
        (/\ calls[i].tool \in FacadeTools
         /\ \A k \in DOMAIN calls[i].table.text : calls[i].table.text[k] # BACKTICK) =>
            /\ calls[i].policy # "deny"
            /\ calls[i].outcome # "policyViolation"

\* What a single scan from left to right leaves of a statement: at "--" the
\* rest of the line is a comment, at a "/*" that is closed the text up to the
\* next "*/" is one, anything else is kept.
RECURSIVE scanComments(_, _)
scanComments(s, i) ==
    IF i > Len(s) THEN << >>
    ELSE IF HasAt(s, <<"-", "-">>, i) THEN scanComments(s, LineEnd(s, i))
    ELSE IF HasAt(s, <<"/", "*">>, i) /\ CommentClose(s, i + 2) # 0
         THEN scanComments(s, CommentClose(s, i + 2) + 2)
    ELSE <<s[i]>> \o scanComments(s, i + 1)

\* The text outside the comments of a statement, with white space and letter
\* case as the checks see them.
OutsideComments(text) == toUpperCase(trim(collapseWhiteSpace(scanComments(text, 1), 1)))

\* C30: a deny-list verb or a statement-separating semicolon that lies
\* outside every comment of a statement is also in the text that the
\* validator is left with after its two passes of comment removal.
C30_CommentsAsTheDatabase ==
    (phase = "evaluated" /\ query.kind = "string") =>
        \E outside \in {OutsideComments(query.text)} :
        \E checked \in {normalize(query.text)} :
            /\ \A k \in DOMAIN DISALLOWED_COMMANDS :
                   regexTest(DISALLOWED_COMMANDS[k], Words(outside, 1)) =>
                       regexTest(DISALLOWED_COMMANDS[k], Words(checked, 1))
            /\ hasMultipleStatements(outside) => hasMultipleStatements(checked)
====
